---- MODULE Spec2Model ----
(***************************************************************************)
(* Model of src/main.py, the Streamlit dashboard "Produccion de Arroz en   *)
(* Colombia".  The script is re-executed top to bottom on every user       *)
(* interaction (a render cycle).  pc is the position of the script inside  *)
(* the current cycle; cache is the memo of st.cache_data; sesion is the    *)
(* widget state that Streamlit keeps between cycles.                       *)
(*                                                                         *)
(* Tables are sequences of rows; a row is a function from column name to   *)
(* value.  Text values are TLA+ strings, measures are naturals, computed   *)
(* ratios are exact fractions (or NaN / Inf as numpy produces them).       *)
(***************************************************************************)
EXTENDS Integers, Sequences, FiniteSets, TLC

VARIABLES
    source,     \* the remote CSV: [columns: set of raw headers, rows: sequence,
                \* objeto: the headers whose column read_csv left as text]
    cache,      \* st.cache_data memo of load_data: Vacio or a normalized table
    fetches,    \* number of times the body of load_data has run
    pc,         \* position of the script in the current render cycle
    df,         \* df = load_data()
    sesion,     \* Streamlit widget state kept between cycles
    previa,     \* the municipality widget state this cycle started with
    sel,        \* widget values in effect in this cycle
    opciones,   \* option sets offered by the selectboxes in this cycle
    df_filtrado,\* the filtered table
    aviso,      \* user-facing notice shown in this cycle
    res         \* metrics and summary tables computed in this cycle

vars == <<source, cache, fetches, pc, df, sesion, previa, sel, opciones, df_filtrado, aviso, res>>

(***************************************************************************)
(* Bounds of the model.                                                    *)
(***************************************************************************)
MaxRows == 2          \* rows of the source file (filter specification)
MaxAggRows == 2       \* rows of the source file (aggregation specification)
MaxEficRows == 2      \* rows of the source file (efficiency specification)
MaxProd == 2          \* largest production value of a row
MaxArea == 2          \* largest sown / harvested area of a row
MaxMissing == 1       \* headers missing from the source file
MaxLoadRows == 1      \* rows of the source file (load specification)
MaxFetches == 3       \* cap on repeated failing loads
MaxParseRows == 2     \* rows of the source file (numeric parsing specification)
MaxCropRows == 2      \* rows of the source file (crop filter specification)
MaxPivotRows == 2     \* rows of the source file (cross-tabulation specification)
MaxTopMun == 5        \* municipalities of the source file (top 20% specification)

(***************************************************************************)
(* Generic helpers.                                                        *)
(***************************************************************************)
Min(a, b) == IF a <= b THEN a ELSE b

RECURSIVE GCD(_, _)
GCD(a, b) == IF b = 0 THEN a ELSE GCD(b, a % b)

(***************************************************************************)
(* Floating point results are kept as exact fractions; a division by zero  *)
(* gives what numpy gives, NaN for 0/0 and Inf for x/0.                     *)
(***************************************************************************)
Frac(n, d) ==
    IF d = 0
    THEN (IF n = 0 THEN [clase |-> "nan", num |-> 0, den |-> 0]
                   ELSE [clase |-> "inf", num |-> 1, den |-> 0])
    ELSE LET g == GCD(n, d)
         IN [clase |-> "num", num |-> n \div g, den |-> d \div g]

Cero == Frac(0, 1)
Cien == Frac(100, 1)
SinValor == [clase |-> "none", num |-> 0, den |-> 0]

EsNumero(a) == a.clase = "num"

\* a <= b for two finite fractions
Leq(a, b) == a.num * b.den <= b.num * a.den

\* x / y * 100
Pct(x, y) == Frac(x * 100, y)

\* Series.round(2), round half to even; NaN and Inf stay as they are
Round2(a) ==
    IF ~EsNumero(a) THEN a
    ELSE LET q == (a.num * 100) \div a.den
             r == (a.num * 100) % a.den
         IN IF 2 * r > a.den \/ (2 * r = a.den /\ q % 2 = 1)
            THEN Frac(q + 1, 100) ELSE Frac(q, 100)

\* Series.unique() as a set
Unique(t, col) == {t[i][col] : i \in 1..Len(t)}

(***************************************************************************)
(* Text operations of pandas' .str accessor, character by character.       *)
(***************************************************************************)
Whitespace == {" ", "\n", "\t"}

Char(s, i) == SubSeq(s, i, i)

RECURSIVE LStrip(_)
LStrip(s) == IF Len(s) > 0 /\ Char(s, 1) \in Whitespace
             THEN LStrip(SubSeq(s, 2, Len(s))) ELSE s

RECURSIVE RStrip(_)
RStrip(s) == IF Len(s) > 0 /\ Char(s, Len(s)) \in Whitespace
             THEN RStrip(SubSeq(s, 1, Len(s) - 1)) ELSE s

\* str.strip()
Strip(s) == RStrip(LStrip(s))

RECURSIVE ReplaceChar(_, _, _)
\* str.replace(a, b) for a one-character pattern a
ReplaceChar(s, a, b) ==
    IF Len(s) = 0 THEN ""
    ELSE (IF Char(s, 1) = a THEN b ELSE Char(s, 1))
         \o ReplaceChar(SubSeq(s, 2, Len(s)), a, b)

LowerToUpper ==
    [c \in {"a", "c", "e", "i", "l", "m", "o", "r", "s", "z"} |->
        CASE c = "a" -> "A" [] c = "c" -> "C" [] c = "e" -> "E"
          [] c = "i" -> "I" [] c = "l" -> "L" [] c = "m" -> "M"
          [] c = "o" -> "O" [] c = "r" -> "R" [] c = "s" -> "S"
          [] c = "z" -> "Z"]

RECURSIVE Upper(_)
\* str.upper() over the alphabet of the crop names
Upper(s) ==
    IF Len(s) = 0 THEN ""
    ELSE (IF Char(s, 1) \in DOMAIN LowerToUpper
          THEN LowerToUpper[Char(s, 1)] ELSE Char(s, 1))
         \o Upper(SubSeq(s, 2, Len(s)))

\* the cleaning without the replacement of line breaks
MutCleanHeader(h) == Strip(h)

\* df_completo.columns.str.strip().str.replace('\n', ' ')
CleanHeader(h) == ReplaceChar(Strip(h), "\n", " ")

(***************************************************************************)
(* The schema of load_data.                                                *)
(***************************************************************************)
column_mapping ==
    [h \in {"CÓD.  DEP.", "DEPARTAMENTO", "CÓD. MUN.", "MUNICIPIO",
            "GRUPO  DE CULTIVO", "SUBGRUPO  DE CULTIVO", "CULTIVO",
            "DESAGREGACIÓN REGIONAL Y/O SISTEMA PRODUCTIVO", "AÑO", "PERIODO",
            "Área Sembrada (ha)", "Área Cosechada (ha)", "Producción (t)",
            "Rendimiento (t/ha)", "ESTADO FISICO PRODUCCION",
            "NOMBRE  CIENTIFICO", "CICLO DE CULTIVO"} |->
        CASE h = "CÓD.  DEP." -> "cod_dep"
          [] h = "DEPARTAMENTO" -> "departamento"
          [] h = "CÓD. MUN." -> "cod_mun"
          [] h = "MUNICIPIO" -> "municipio"
          [] h = "GRUPO  DE CULTIVO" -> "grupo_cultivo"
          [] h = "SUBGRUPO  DE CULTIVO" -> "subgrupo_cultivo"
          [] h = "CULTIVO" -> "cultivo"
          [] h = "DESAGREGACIÓN REGIONAL Y/O SISTEMA PRODUCTIVO" -> "sistema_productivo"
          [] h = "AÑO" -> "año"
          [] h = "PERIODO" -> "periodo"
          [] h = "Área Sembrada (ha)" -> "area_sembrada"
          [] h = "Área Cosechada (ha)" -> "area_cosechada"
          [] h = "Producción (t)" -> "produccion"
          [] h = "Rendimiento (t/ha)" -> "rendimiento"
          [] h = "ESTADO FISICO PRODUCCION" -> "estado_fisico"
          [] h = "NOMBRE  CIENTIFICO" -> "nombre_cientifico"
          [] h = "CICLO DE CULTIVO" -> "ciclo_cultivo"]

ExpectedHeaders == DOMAIN column_mapping

CanonicalFields == {column_mapping[h] : h \in ExpectedHeaders}

\* the list of numeric columns without its last entry
MutNumericColumns == {"area_sembrada", "area_cosechada", "produccion"}

numeric_columns == {"area_sembrada", "area_cosechada", "produccion", "rendimiento"}

\* the headers load_data looks up by name before renaming
CropHeaders == {"GRUPO  DE CULTIVO", "CULTIVO"}

\* df.rename(columns=column_mapping): unknown names are kept, absent keys ignored
Rename(c) == IF c \in DOMAIN column_mapping THEN column_mapping[c] ELSE c

(***************************************************************************)
(* The source file.  RawHeader gives the spelling of a header in the file: *)
(* as the mapping spells it, padded with blanks, or with the line break    *)
(* that the doubled blanks of the mapping keys come from.                  *)
(***************************************************************************)
Estilos == {"limpio", "espacios", "saltos"}

RECURSIVE ConSaltos(_)
\* the header with the second blank of every doubled blank as a line break
ConSaltos(h) ==
    IF Len(h) < 2 THEN h
    ELSE IF Char(h, 1) = " " /\ Char(h, 2) = " "
         THEN " \n" \o ConSaltos(SubSeq(h, 3, Len(h)))
         ELSE Char(h, 1) \o ConSaltos(SubSeq(h, 2, Len(h)))

RawHeader(h, estilo) ==
    CASE estilo = "limpio" -> h
      [] estilo = "espacios" -> " " \o h \o "  "
      [] estilo = "saltos" -> ConSaltos(h) \o "\n"

\* one record of the survey, by canonical field
Registro(dep, mun, anio, prod, sembrada, cosechada, cultivo) ==
    [c \in CanonicalFields |->
        CASE c = "departamento" -> dep
          [] c = "municipio" -> mun
          [] c = "año" -> anio
          [] c = "produccion" -> prod
          [] c = "area_sembrada" -> sembrada
          [] c = "area_cosechada" -> cosechada
          [] c = "rendimiento" -> 1
          [] c = "cultivo" -> cultivo
          [] c = "grupo_cultivo" -> "CEREALES"
          [] c = "subgrupo_cultivo" -> "ARROZ"
          [] c = "sistema_productivo" -> "RIEGO"
          [] c = "periodo" -> "A"
          [] OTHER -> "x"]

\* the spellings of the expected headers, by style
Raw == [e \in Estilos |-> [h \in ExpectedHeaders |-> RawHeader(h, e)]]

\* the file that holds the records regs under the headers of presentes
Archivo(regs, presentes, estilo) ==
    LET cols == {Raw[estilo][h] : h \in presentes}
        campo == [rh \in cols |->
                     column_mapping[CHOOSE h \in presentes : Raw[estilo][h] = rh]]
    IN [columns |-> cols,
        rows |-> [i \in 1..Len(regs) |-> [rh \in cols |-> regs[i][campo[rh]]]],
        objeto |-> {}]

\* the file Archivo(regs, ..) whose column h is stored as text: the cell of
\* row i holds formas[i]
ArchivoTexto(regs, h, formas) ==
    LET a == Archivo(regs, ExpectedHeaders, "limpio")
    IN [columns |-> a.columns,
        rows |-> [i \in 1..Len(regs) |-> [a.rows[i] EXCEPT ![h] = formas[i]]],
        objeto |-> {h}]

RECURSIVE SetToSeq(_)
SetToSeq(S) == IF S = {} THEN <<>>
               ELSE LET x == CHOOSE y \in S : TRUE
                    IN <<x>> \o SetToSeq(S \ {x})

\* the files of at most n records drawn from regs; the order of the records
\* in a file only decides the order of the rows of the tables, so one order
\* per multiset of records is enumerated
Tablas(regs, n) ==
    LET pool == SetToSeq(regs)
        idx == UNION {{s \in [1..k -> 1..Len(pool)] :
                          \A i \in 1..k - 1 : s[i] <= s[i + 1]} : k \in 0..n}
    IN {[i \in DOMAIN s |-> pool[s[i]]] : s \in idx}

RECURSIVE KSubsets(_, _)
\* the subsets of S of at most k elements
KSubsets(S, k) == IF k = 0 THEN {{}}
                  ELSE KSubsets(S, k - 1) \cup
                       {T \cup {x} : T \in KSubsets(S, k - 1), x \in S}

Departamentos == {"META", "TOLIMA"}
Municipios == {"ESPINAL", "GRANADA"}
NaN == "NaN"
Todos == "Todos"

(***************************************************************************)
(* Initial states: nothing cached, no widget state, script about to run.   *)
(***************************************************************************)
Vacio == [columns |-> {}, rows |-> <<>>, lleno |-> FALSE]

SinWidget == [options |-> {}, value |-> Todos]

SesionInicial ==
    [multiselect |-> [set |-> FALSE, value |-> {}],
     anio |-> SinWidget, dep |-> SinWidget, mun |-> SinWidget]

SelInicial == [multiselect |-> {}, anio |-> Todos, dep |-> Todos, mun |-> Todos]

OpcionesInicial == [rendered |-> {}, multiselect |-> {}, anio |-> {}, dep |-> {}, mun |-> {}]

ResInicial ==
    [hechas |-> {},
     total_produccion |-> SinValor, area_total |-> SinValor,
     rendimiento_promedio |-> SinValor, num_municipios |-> 0,
     produccion_anio |-> {}, produccion_dep |-> <<>>, produccion_dep_desc |-> <<>>,
     concentracion_top5 |-> SinValor,
     produccion_municipios |-> <<>>, total_municipios |-> 0, concentracion |-> SinValor,
     eficiencia_dept |-> <<>>, perdida_total |-> 0, area_sembrada_total |-> 0,
     eficiencia_promedio |-> SinValor,
     sistemas |-> <<>>, produccion_periodo |-> <<>>, heatmap_pivot |-> <<>>,
     produccion_municipios_conc |-> <<>>, lorenz_data |-> <<>>,
     top_20_pct_municipios |-> 0, concentracion_20 |-> SinValor,
     csv |-> <<>>]

Arranque(src) ==
    /\ source = src
    /\ cache = Vacio
    /\ fetches = 0
    /\ pc = "load_data"
    /\ df = Vacio
    /\ sesion = SesionInicial
    /\ previa = SinWidget
    /\ sel = SelInicial
    /\ opciones = OpcionesInicial
    /\ df_filtrado = <<>>
    /\ aviso = "none"
    /\ res = ResInicial

RegistrosFiltro ==
    {Registro(d, m, a, 1, 1, 1, "ARROZ") :
        d \in Departamentos, m \in Municipios, a \in {"2020", NaN}}

Init ==
    \E regs \in Tablas(RegistrosFiltro, MaxRows) :
        Arranque(Archivo(regs, ExpectedHeaders, "saltos"))

\* production varies, over three municipalities of two departments
LugaresAgg == {<<"META", "GRANADA">>, <<"TOLIMA", "ESPINAL">>, <<"TOLIMA", "IBAGUE">>}

RegistrosAgg ==
    {Registro(l[1], l[2], "2020", p, 1, 1, "ARROZ") : l \in LugaresAgg, p \in 0..MaxProd}

InitAgg ==
    \E regs \in Tablas(RegistrosAgg, MaxAggRows) :
        Arranque(Archivo(regs, ExpectedHeaders, "saltos"))

\* sown and harvested areas vary
RegistrosEfic ==
    {Registro(d, "ESPINAL", "2020", 1, s, c, "ARROZ") :
        d \in Departamentos, s \in 0..MaxArea, c \in 0..MaxArea}

InitEfic ==
    \E regs \in Tablas(RegistrosEfic, MaxEficRows) :
        Arranque(Archivo(regs, ExpectedHeaders, "saltos"))

\* the headers of the file vary: spelling, and which of them are there
RegistrosCarga ==
    {Registro("META", "ESPINAL", "2020", 1, 1, 1, c) : c \in {" arroz ", "MAIZ"}}

InitLoad ==
    \E regs \in Tablas(RegistrosCarga, MaxLoadRows), estilo \in Estilos,
       faltan \in KSubsets(ExpectedHeaders, MaxMissing) :
        Arranque(Archivo(regs, ExpectedHeaders \ faltan, estilo))

\* a numeric column may be stored as text, with or without decimal comma
NumericHeaders == {h \in ExpectedHeaders : column_mapping[h] \in numeric_columns}

FormasTexto == {"1", "2,0", "x"}

RegistrosParse ==
    {Registro("META", "ESPINAL", "2020", 1, 1, 1, c) : c \in {"ARROZ", "MAIZ"}}

InitParse ==
    \E regs \in Tablas(RegistrosParse, MaxParseRows) :
        \/ Arranque(Archivo(regs, ExpectedHeaders, "limpio"))
        \/ \E h \in NumericHeaders, formas \in [1..Len(regs) -> FormasTexto] :
              Arranque(ArchivoTexto(regs, h, formas))

\* year, period and production vary
RegistrosPivot ==
    {[Registro("META", "ESPINAL", a, p, 1, 1, "ARROZ") EXCEPT !["periodo"] = per] :
        a \in {"2020", "2021"}, per \in {"A", "B", NaN}, p \in 1..2}

InitPivot ==
    \E regs \in Tablas(RegistrosPivot, MaxPivotRows) :
        Arranque(Archivo(regs, ExpectedHeaders, "saltos"))

\* the number of municipalities varies, one row each, production 1 or 2
NombresMunicipio ==
    <<"ESPINAL", "GUAMO", "IBAGUE", "LERIDA", "PURIFICACION", "SALDANA", "VENADILLO">>

InitTop ==
    \E k \in 0..MaxTopMun :
        \E prods \in [1..k -> 1..2] :
            Arranque(Archivo([i \in 1..k |->
                                 Registro("TOLIMA", NombresMunicipio[i], "2020",
                                          prods[i], 1, 1, "ARROZ")],
                             ExpectedHeaders, "saltos"))

\* crop group and crop vary, in spelling and in value
RegistrosCultivo ==
    {[Registro("META", "ESPINAL", "2020", 1, 1, 1, c) EXCEPT !["grupo_cultivo"] = g] :
        c \in {"ARROZ", " arroz ", "AR ROZ", "MAIZ"},
        g \in {"CEREALES", " Cereales", "FRUTALES"}}

InitCrop ==
    \E regs \in Tablas(RegistrosCultivo, MaxCropRows) :
        Arranque(Archivo(regs, ExpectedHeaders, "saltos"))

(***************************************************************************)
(* load_data (lines 54-100) behind st.cache_data, called at line 104.      *)
(***************************************************************************)
\* line 63: the table under cleaned header names
Limpiar(src) ==
    LET cols == {CleanHeader(h) : h \in src.columns}
        raw(c) == CHOOSE h \in src.columns : CleanHeader(h) = c
    IN [columns |-> cols,
        rows |-> [i \in 1..Len(src.rows) |-> [c \in cols |-> src.rows[i][raw(c)]]]]

\* the row filter without its crop-group condition
MutEsArroz(r) ==
    /\ Upper(Strip(r["CULTIVO"])) = "ARROZ"

\* lines 66-69: keep the rice rows
EsArroz(r) ==
    /\ Upper(Strip(r["GRUPO  DE CULTIVO"])) = "CEREALES"
    /\ Upper(Strip(r["CULTIVO"])) = "ARROZ"

\* line 92
Renombrar(t) ==
    LET cols == {Rename(c) : c \in t.columns}
        old(c) == CHOOSE o \in t.columns : Rename(o) = c
    IN [columns |-> cols,
        rows |-> [i \in 1..Len(t.rows) |-> [c \in cols |-> t.rows[i][old(c)]]]]

Digitos == {"0", "1", "2", "3", "4", "5", "6", "7", "8", "9"}

DigitVal(c) ==
    CASE c = "0" -> 0 [] c = "1" -> 1 [] c = "2" -> 2 [] c = "3" -> 3 [] c = "4" -> 4
      [] c = "5" -> 5 [] c = "6" -> 6 [] c = "7" -> 7 [] c = "8" -> 8 [] c = "9" -> 9

RECURSIVE SoloDigitos(_)
SoloDigitos(s) == Len(s) = 0 \/ (Char(s, 1) \in Digitos /\ SoloDigitos(SubSeq(s, 2, Len(s))))

RECURSIVE ValorDigitos(_)
ValorDigitos(s) ==
    IF Len(s) = 0 THEN 0
    ELSE 10 * ValorDigitos(SubSeq(s, 1, Len(s) - 1)) + DigitVal(Char(s, Len(s)))

RECURSIVE Pow10(_)
Pow10(n) == IF n = 0 THEN 1 ELSE 10 * Pow10(n - 1)

RECURSIVE Find(_, _, _)
\* the position of the first c in s from position i on, 0 when there is none
Find(s, c, i) == IF i > Len(s) THEN 0
                 ELSE IF Char(s, i) = c THEN i ELSE Find(s, c, i + 1)

\* float(s) for unsigned decimal literals: digits with at most one period;
\* any other text raises ValueError.  A whole value is kept as a natural.
ParseFloat(s) ==
    LET t == Strip(s)
        p == Find(t, ".", 1)
        ent == IF p = 0 THEN t ELSE SubSeq(t, 1, p - 1)
        dec == IF p = 0 THEN "" ELSE SubSeq(t, p + 1, Len(t))
    IN IF Len(ent) + Len(dec) = 0 \/ ~SoloDigitos(ent) \/ ~SoloDigitos(dec)
       THEN [ok |-> FALSE, valor |-> 0]
       ELSE LET f == Frac(ValorDigitos(ent) * Pow10(Len(dec)) + ValorDigitos(dec),
                          Pow10(Len(dec)))
            IN [ok |-> TRUE, valor |-> IF f.den = 1 THEN f.num ELSE f]

\* the conversion without the replacement of the decimal comma
MutToFloat(s) == ParseFloat(s)

\* line 98, one value: .str.replace(',', '.').astype(float)
ToFloat(s) == ParseFloat(ReplaceChar(s, ",", "."))

\* lines 96-98: the columns of dtype object among numeric_columns are parsed;
\* a value that does not parse raises ValueError
ConvertirNumericas(t, objeto) ==
    LET texto == objeto \cap numeric_columns
    IN IF \E i \in 1..Len(t.rows), c \in texto : ~ToFloat(t.rows[i][c]).ok
       THEN [ok |-> FALSE, tabla |-> Vacio]
       ELSE [ok |-> TRUE,
             tabla |-> [columns |-> t.columns,
                        rows |-> [i \in 1..Len(t.rows) |->
                                    [c \in t.columns |->
                                        IF c \in texto THEN ToFloat(t.rows[i][c]).valor
                                        ELSE t.rows[i][c]]],
                        lleno |-> TRUE]]

\* the body of load_data: the table it returns, or the KeyError / ValueError
\* it raises
load_data ==
    LET limpio == Limpiar(source)
    IN IF ~(CropHeaders \subseteq limpio.columns)
       THEN [ok |-> FALSE, tabla |-> Vacio]
       ELSE LET arroz == [columns |-> limpio.columns,
                          rows |-> SelectSeq(limpio.rows, EsArroz)]
                t == Renombrar(arroz)
            IN IF ~(numeric_columns \subseteq t.columns)
               THEN [ok |-> FALSE, tabla |-> Vacio]
               ELSE ConvertirNumericas(t, {Rename(CleanHeader(h)) : h \in source.objeto})

\* load_data without the st.cache_data decorator
MutLoadData ==
    /\ pc = "load_data"
    /\ fetches' = fetches + 1
    /\ IF load_data.ok
       THEN /\ cache' = load_data.tabla
            /\ df' = load_data.tabla
            /\ pc' = "sidebar"
       ELSE /\ pc' = "excepcion"
            /\ UNCHANGED <<cache, df>>
    /\ UNCHANGED <<source, previa, sesion, sel, opciones, df_filtrado, aviso, res>>

\* line 104: df = load_data(), memoized
LoadData ==
    /\ pc = "load_data"
    /\ IF cache.lleno
       THEN /\ df' = cache
            /\ pc' = "sidebar"
            /\ UNCHANGED <<cache, fetches>>
       ELSE /\ fetches' = fetches + 1
            /\ IF load_data.ok
               THEN /\ cache' = load_data.tabla
                    /\ df' = load_data.tabla
                    /\ pc' = "sidebar"
               ELSE /\ pc' = "excepcion"
                    /\ UNCHANGED <<cache, df>>
    /\ UNCHANGED <<source, previa, sesion, sel, opciones, df_filtrado, aviso, res>>

(***************************************************************************)
(* Sidebar and department multiselect (lines 111-131).                     *)
(***************************************************************************)
\* the multiselect filter without its "if departamentos_seleccionados" guard
MutFiltrarDepartamentos(t, seleccion) ==
    SelectSeq(t, LAMBDA r : r["departamento"] \in seleccion)

\* lines 125-126: an empty selection restricts nothing
FiltrarDepartamentos(t, seleccion) ==
    IF seleccion # {}
    THEN SelectSeq(t, LAMBDA r : r["departamento"] \in seleccion)
    ELSE t

\* lines 111-126; df['departamento'] raises KeyError when the column is absent
Sidebar ==
    /\ pc = "sidebar"
    /\ IF "departamento" \notin df.columns
       THEN /\ pc' = "excepcion"
            /\ UNCHANGED <<sesion, sel, opciones, df_filtrado>>
       ELSE LET departamentos_disponibles == Unique(df.rows, "departamento")
                departamentos_seleccionados ==
                    IF sesion.multiselect.set THEN sesion.multiselect.value
                    ELSE departamentos_disponibles
            IN /\ sel' = [sel EXCEPT !.multiselect = departamentos_seleccionados]
               /\ opciones' = [opciones EXCEPT !.multiselect = departamentos_disponibles,
                                               !.rendered = {"multiselect"}]
               /\ sesion' = [sesion EXCEPT !.multiselect =
                                [set |-> TRUE, value |-> departamentos_seleccionados]]
               /\ df_filtrado' = FiltrarDepartamentos(df.rows, departamentos_seleccionados)
               /\ pc' = "check1"
    /\ UNCHANGED <<source, cache, fetches, previa, df, aviso, res>>

\* lines 129-131
Check1 ==
    /\ pc = "check1"
    /\ IF df_filtrado = <<>>
       THEN aviso' = "error" /\ pc' = "stop"
       ELSE aviso' = aviso /\ pc' = "filtros"
    /\ UNCHANGED <<source, cache, fetches, previa, df, sesion, sel, opciones, df_filtrado, res>>

(***************************************************************************)
(* The three selectboxes (lines 154-191).  A selectbox without a key is    *)
(* identified by its label and options: it keeps the stored value while    *)
(* its options are the ones it was stored with and otherwise starts at     *)
(* index=0, "Todos".                                                       *)
(***************************************************************************)
\* a selectbox that keeps its stored value whatever its options are
MutSelectbox(stored, options) == stored.value

Selectbox(stored, options) ==
    IF stored.options = options THEN stored.value ELSE Todos

\* line 158
HayAnios(t, columns) ==
    "año" \in columns /\ \E i \in 1..Len(t) : t[i]["año"] # NaN

\* line 159
AniosFiltro(t) == Unique(t, "año") \ {NaN}

\* lines 181-184
MunicipiosFiltro(t, departamento_analisis) ==
    IF departamento_analisis # Todos
    THEN Unique(SelectSeq(t, LAMBDA r : r["departamento"] = departamento_analisis),
                "municipio")
    ELSE Unique(t, "municipio")

Filtros ==
    /\ pc = "filtros"
    /\ LET hay == HayAnios(df_filtrado, df.columns)
           anios_filtro == IF hay THEN AniosFiltro(df_filtrado) ELSE {}
           anio_analisis == IF hay THEN Selectbox(sesion.anio, anios_filtro) ELSE Todos
           departamentos_filtro == Unique(df_filtrado, "departamento")
           departamento_analisis == Selectbox(sesion.dep, departamentos_filtro)
       IN IF "municipio" \notin df.columns
          THEN /\ pc' = "excepcion"
               /\ sel' = [sel EXCEPT !.anio = anio_analisis, !.dep = departamento_analisis]
               /\ opciones' = [opciones EXCEPT
                                 !.rendered = @ \cup (IF hay THEN {"anio"} ELSE {}) \cup {"dep"},
                                 !.anio = anios_filtro, !.dep = departamentos_filtro]
               /\ sesion' = [sesion EXCEPT
                                 !.anio = [options |-> anios_filtro, value |-> anio_analisis],
                                 !.dep = [options |-> departamentos_filtro,
                                          value |-> departamento_analisis],
                                 !.mun = SinWidget]
          ELSE LET municipios_filtro == MunicipiosFiltro(df_filtrado, departamento_analisis)
                   municipio_analisis == Selectbox(sesion.mun, municipios_filtro)
               IN /\ pc' = "aplicar"
                  /\ sel' = [sel EXCEPT !.anio = anio_analisis, !.dep = departamento_analisis,
                                        !.mun = municipio_analisis]
                  /\ opciones' = [opciones EXCEPT
                                    !.rendered = @ \cup (IF hay THEN {"anio"} ELSE {})
                                                   \cup {"dep", "mun"},
                                    !.anio = anios_filtro, !.dep = departamentos_filtro,
                                    !.mun = municipios_filtro]
                  /\ sesion' = [sesion EXCEPT
                                    !.anio = [options |-> anios_filtro, value |-> anio_analisis],
                                    !.dep = [options |-> departamentos_filtro,
                                             value |-> departamento_analisis],
                                    !.mun = [options |-> municipios_filtro,
                                             value |-> municipio_analisis]]
    /\ UNCHANGED <<source, cache, fetches, previa, df, df_filtrado, aviso, res>>

(***************************************************************************)
(* Year / department / municipality filters (lines 194-206).               *)
(***************************************************************************)
\* one "if x != 'Todos': df_filtrado = df_filtrado[df_filtrado[col] == x]"
FiltrarIgual(t, col, valor) ==
    IF valor # Todos THEN SelectSeq(t, LAMBDA r : r[col] = valor) ELSE t

\* the filters with the municipality taken from the widget value stored by
\* the previous cycle instead of the value in effect
MutAplicarFiltros(t, s) ==
    FiltrarIgual(FiltrarIgual(FiltrarIgual(t, "año", s.anio),
                              "departamento", s.dep),
                 "municipio", previa.value)

\* lines 194-201
AplicarFiltros(t, s) ==
    FiltrarIgual(FiltrarIgual(FiltrarIgual(t, "año", s.anio),
                              "departamento", s.dep),
                 "municipio", s.mun)

Aplicar ==
    /\ pc = "aplicar"
    /\ df_filtrado' = AplicarFiltros(df_filtrado, sel)
    /\ pc' = "check2"
    /\ UNCHANGED <<source, cache, fetches, previa, df, sesion, sel, opciones, aviso, res>>

\* the second checkpoint without its st.stop()
MutCheck2 ==
    /\ pc = "check2"
    /\ aviso' = (IF df_filtrado = <<>> THEN "warning" ELSE aviso)
    /\ pc' = "metricas"
    /\ UNCHANGED <<source, cache, fetches, previa, df, sesion, sel, opciones, df_filtrado, res>>

\* lines 204-206
Check2 ==
    /\ pc = "check2"
    /\ IF df_filtrado = <<>>
       THEN aviso' = "warning" /\ pc' = "stop"
       ELSE aviso' = aviso /\ pc' = "metricas"
    /\ UNCHANGED <<source, cache, fetches, previa, df, sesion, sel, opciones, df_filtrado, res>>

(***************************************************************************)
(* User interaction: a widget change or a rerun starts a new render cycle. *)
(* The script's variables of the previous cycle are gone; the memo and the *)
(* widget state remain.                                                    *)
(***************************************************************************)
Pausado == pc \in {"fin", "stop", "excepcion"}

NuevoCiclo(s) ==
    /\ cache.lleno \/ fetches < MaxFetches
    /\ pc' = "load_data"
    /\ sesion' = s
    /\ previa' = s.mun
    /\ df' = Vacio
    /\ sel' = SelInicial
    /\ opciones' = OpcionesInicial
    /\ df_filtrado' = <<>>
    /\ aviso' = "none"
    /\ res' = ResInicial
    /\ UNCHANGED <<source, cache, fetches>>

\* a multiselect that also offers a department that is not in the table
MutCambiarMultiselect ==
    /\ Pausado
    /\ "multiselect" \in opciones.rendered
    /\ \E S \in (SUBSET (opciones.multiselect \cup {"VALLE"})) \ {sel.multiselect} :
          NuevoCiclo([sesion EXCEPT !.multiselect = [set |-> TRUE, value |-> S]])

\* line 112
CambiarMultiselect ==
    /\ Pausado
    /\ "multiselect" \in opciones.rendered
    /\ \E S \in (SUBSET opciones.multiselect) \ {sel.multiselect} :
          NuevoCiclo([sesion EXCEPT !.multiselect = [set |-> TRUE, value |-> S]])

\* line 160
CambiarAnio ==
    /\ Pausado
    /\ "anio" \in opciones.rendered
    /\ \E v \in (opciones.anio \cup {Todos}) \ {sel.anio} :
          NuevoCiclo([sesion EXCEPT !.anio.value = v])

\* line 172
CambiarDepartamento ==
    /\ Pausado
    /\ "dep" \in opciones.rendered
    /\ \E v \in (opciones.dep \cup {Todos}) \ {sel.dep} :
          NuevoCiclo([sesion EXCEPT !.dep.value = v])

\* line 186
CambiarMunicipio ==
    /\ Pausado
    /\ "mun" \in opciones.rendered
    /\ \E v \in (opciones.mun \cup {Todos}) \ {sel.mun} :
          NuevoCiclo([sesion EXCEPT !.mun.value = v])

\* the script is run again with the widgets as they are
Rerun ==
    /\ Pausado
    /\ NuevoCiclo(sesion)

(***************************************************************************)
(* pandas aggregation primitives.                                          *)
(***************************************************************************)
RECURSIVE SumCol(_, _)
\* t[col].sum()
SumCol(t, col) == IF t = <<>> THEN 0 ELSE Head(t)[col] + SumCol(Tail(t), col)

\* the rows of t whose key columns hold k
Grupo(t, cols, k) == SelectSeq(t, LAMBDA r : \A i \in 1..Len(cols) : r[cols[i]] = k[i])

\* the group keys of t.groupby(cols): rows with a missing key are dropped
Claves(t, cols) ==
    {k \in {[i \in 1..Len(cols) |-> t[j][cols[i]]] : j \in 1..Len(t)} :
        \A i \in 1..Len(cols) : k[i] # NaN}

\* t.groupby(col)[medida].sum(): a series indexed by the group key
GroupSum(t, col, medida) ==
    {[clave |-> k[1], valor |-> SumCol(Grupo(t, <<col>>, k), medida)] :
        k \in Claves(t, <<col>>)}

RECURSIVE MutSortValues(_, _, _)
\* sort_values that ignores ascending=False
MutSortValues(S, campo, ascending) ==
    IF S = {} THEN <<>>
    ELSE LET x == CHOOSE y \in S : \A z \in S : y[campo] <= z[campo]
         IN <<x>> \o MutSortValues(S \ {x}, campo, ascending)

RECURSIVE SortValues(_, _, _)
\* sort_values(campo, ascending): the records of S as a sequence
SortValues(S, campo, ascending) ==
    IF S = {} THEN <<>>
    ELSE LET x == CHOOSE y \in S : \A z \in S :
                      IF ascending THEN y[campo] <= z[campo] ELSE y[campo] >= z[campo]
         IN <<x>> \o SortValues(S \ {x}, campo, ascending)

\* s.head(n)
HeadN(s, n) == SubSeq(s, 1, Min(n, Len(s)))

\* s.tail(n)
TailN(s, n) == SubSeq(s, Len(s) - Min(n, Len(s)) + 1, Len(s))

\* a cumsum that accumulates nothing
MutCumSum(s) == [i \in 1..Len(s) |-> s[i].valor]

\* s.cumsum() of a series of records, on the field valor
CumSum(s) == [i \in 1..Len(s) |-> SumCol(SubSeq(s, 1, i), "valor")]

\* np.linspace(0, 100, n)
Linspace100(n) == [i \in 1..n |-> IF n = 1 THEN Cero ELSE Frac(100 * (i - 1), n - 1)]

\* the number of groups the rankings keep
TopDepartamentos == 5
TopMunicipios == 10

\* sum(head(n)) / sum(all) * 100 as written at line 346
ConcentracionTop(desc, n) ==
    Pct(SumCol(HeadN(desc, n), "valor"), SumCol(desc, "valor"))

\* (top / total * 100) if total > 0 else 0, lines 482 and 919
ConcentracionGuardada(top, total) == IF total > 0 THEN Pct(top, total) ELSE Cero

(***************************************************************************)
(* Main metrics (lines 215-245).                                           *)
(***************************************************************************)
Metricas ==
    /\ pc = "metricas"
    /\ res' = [res EXCEPT
                 !.hechas = @ \cup {"metricas"},
                 !.total_produccion = Frac(SumCol(df_filtrado, "produccion"), 1000000),
                 !.area_total = Frac(SumCol(df_filtrado, "area_sembrada"), 1000),
                 !.rendimiento_promedio =
                     Frac(SumCol(df_filtrado, "rendimiento"), Len(df_filtrado)),
                 !.num_municipios = Cardinality(Unique(df_filtrado, "municipio") \ {NaN})]
    /\ pc' = "seccion1"
    /\ UNCHANGED <<source, cache, fetches, previa, df, sesion, sel, opciones, df_filtrado, aviso>>

(***************************************************************************)
(* Section 1: production by year, by department, by municipality           *)
(* (lines 256-492).                                                        *)
(***************************************************************************)
\* the municipality table grouped by the municipality name alone
MutProduccionMunicipios(t) ==
    SortValues({[departamento |-> Grupo(t, <<"municipio">>, k)[1]["departamento"],
                 municipio |-> k[1],
                 produccion |-> SumCol(Grupo(t, <<"municipio">>, k), "produccion"),
                 area_sembrada |-> SumCol(Grupo(t, <<"municipio">>, k), "area_sembrada"),
                 municipio_completo |->
                     k[1] \o ", " \o Grupo(t, <<"municipio">>, k)[1]["departamento"]] :
                   k \in Claves(t, <<"municipio">>)},
               "produccion", FALSE)

\* lines 357-369: one row per (departamento, municipio), largest first
ProduccionMunicipios(t) ==
    SortValues({[departamento |-> k[1], municipio |-> k[2],
                 produccion |-> SumCol(Grupo(t, <<"departamento", "municipio">>, k),
                                       "produccion"),
                 area_sembrada |-> SumCol(Grupo(t, <<"departamento", "municipio">>, k),
                                          "area_sembrada"),
                 municipio_completo |-> k[2] \o ", " \o k[1]] :
                   k \in Claves(t, <<"departamento", "municipio">>)},
               "produccion", FALSE)

Seccion1 ==
    /\ pc = "seccion1"
    /\ LET produccion_dep ==
               SortValues(GroupSum(df_filtrado, "departamento", "produccion"), "valor", TRUE)
           produccion_dep_desc ==
               SortValues({produccion_dep[i] : i \in 1..Len(produccion_dep)}, "valor", FALSE)
           produccion_municipios == ProduccionMunicipios(df_filtrado)
           prod_top10 == SumCol(HeadN(produccion_municipios, TopMunicipios), "produccion")
           prod_total == SumCol(produccion_municipios, "produccion")
       IN res' = [res EXCEPT
                    !.hechas = @ \cup {"seccion1"},
                    !.produccion_anio =
                        IF HayAnios(df_filtrado, df.columns)
                        THEN GroupSum(df_filtrado, "año", "produccion") ELSE {},
                    !.produccion_dep = produccion_dep,
                    !.produccion_dep_desc = produccion_dep_desc,
                    !.concentracion_top5 =
                        ConcentracionTop(produccion_dep_desc, TopDepartamentos),
                    !.produccion_municipios = produccion_municipios,
                    !.total_municipios = Len(produccion_municipios),
                    !.concentracion = ConcentracionGuardada(prod_top10, prod_total)]
    /\ pc' = "seccion2"
    /\ UNCHANGED <<source, cache, fetches, previa, df, sesion, sel, opciones, df_filtrado, aviso>>

(***************************************************************************)
(* Section 2: harvest efficiency by department (lines 503-575).            *)
(***************************************************************************)
\* lines 505-513
EficienciaDept(t) ==
    LET fila(d) ==
            LET g == Grupo(t, <<"departamento">>, <<d>>)
                sembrada == SumCol(g, "area_sembrada")
                cosechada == SumCol(g, "area_cosechada")
            IN [departamento |-> d,
                area_sembrada |-> sembrada,
                area_cosechada |-> cosechada,
                produccion |-> SumCol(g, "produccion"),
                perdida |-> sembrada - cosechada,
                eficiencia |-> Round2(Pct(cosechada, sembrada))]
    IN SortValues({fila(k[1]) : k \in Claves(t, <<"departamento">>)}, "perdida", FALSE)

\* section 2 with perdida written on the filtered table itself
MutSeccion2 ==
    /\ pc = "seccion2"
    /\ LET eficiencia_dept == EficienciaDept(df_filtrado)
           area_sembrada_total == SumCol(eficiencia_dept, "area_sembrada")
       IN res' = [res EXCEPT
                    !.hechas = @ \cup {"seccion2"},
                    !.eficiencia_dept = eficiencia_dept,
                    !.perdida_total = SumCol(eficiencia_dept, "perdida"),
                    !.area_sembrada_total = area_sembrada_total,
                    !.eficiencia_promedio =
                        Pct(SumCol(eficiencia_dept, "area_cosechada"), area_sembrada_total)]
    /\ df_filtrado' =
           [i \in 1..Len(df_filtrado) |->
               [c \in DOMAIN df_filtrado[i] \cup {"perdida"} |->
                   IF c = "perdida"
                   THEN df_filtrado[i]["area_sembrada"] - df_filtrado[i]["area_cosechada"]
                   ELSE df_filtrado[i][c]]]
    /\ pc' = "seccion3"
    /\ UNCHANGED <<source, cache, fetches, previa, df, sesion, sel, opciones, aviso>>

Seccion2 ==
    /\ pc = "seccion2"
    /\ LET eficiencia_dept == EficienciaDept(df_filtrado)
           area_sembrada_total == SumCol(eficiencia_dept, "area_sembrada")
       IN res' = [res EXCEPT
                    !.hechas = @ \cup {"seccion2"},
                    !.eficiencia_dept = eficiencia_dept,
                    !.perdida_total = SumCol(eficiencia_dept, "perdida"),
                    !.area_sembrada_total = area_sembrada_total,
                    !.eficiencia_promedio =
                        Pct(SumCol(eficiencia_dept, "area_cosechada"), area_sembrada_total)]
    /\ pc' = "seccion3"
    /\ UNCHANGED <<source, cache, fetches, previa, df, sesion, sel, opciones, df_filtrado, aviso>>

(***************************************************************************)
(* Section 3: productive systems and periods (lines 685-774).              *)
(***************************************************************************)
\* lines 685 and 736: the column exists and holds a value
HayColumna(t, columns, col) ==
    col \in columns /\ \E i \in 1..Len(t) : t[i][col] # NaN

\* a cell of a pivoted table: a value, or null
Celda(v) == [nulo |-> FALSE, valor |-> v]
Nulo == [nulo |-> TRUE, valor |-> 0]

\* line 756: groupby(['año', 'periodo'])['produccion'].sum().reset_index()
HeatmapData(t) ==
    {[anio |-> k[1], periodo |-> k[2],
      produccion |-> SumCol(Grupo(t, <<"año", "periodo">>, k), "produccion")] :
        k \in Claves(t, <<"año", "periodo">>)}

\* a pivot that fills the missing combinations with 0
MutPivot(data) ==
    [p \in {r.periodo : r \in data} |->
        [a \in {r.anio : r \in data} |->
            IF \E r \in data : r.periodo = p /\ r.anio = a
            THEN Celda((CHOOSE r \in data : r.periodo = p /\ r.anio = a).produccion)
            ELSE Celda(0)]]

\* line 757: heatmap_data.pivot(index='periodo', columns='año', values='produccion')
Pivot(data) ==
    [p \in {r.periodo : r \in data} |->
        [a \in {r.anio : r \in data} |->
            IF \E r \in data : r.periodo = p /\ r.anio = a
            THEN Celda((CHOOSE r \in data : r.periodo = p /\ r.anio = a).produccion)
            ELSE Nulo]]

Seccion3 ==
    /\ pc = "seccion3"
    /\ res' = [res EXCEPT
                 !.hechas = @ \cup {"seccion3"},
                 !.sistemas =
                     IF HayColumna(df_filtrado, df.columns, "sistema_productivo")
                     THEN SortValues(GroupSum(df_filtrado, "sistema_productivo", "produccion"),
                                     "valor", TRUE)
                     ELSE <<>>,
                 !.produccion_periodo =
                     IF HayColumna(df_filtrado, df.columns, "periodo")
                     THEN SortValues(GroupSum(df_filtrado, "periodo", "produccion"),
                                     "valor", FALSE)
                     ELSE <<>>,
                 !.heatmap_pivot =
                     IF HayColumna(df_filtrado, df.columns, "periodo")
                        /\ "año" \in df.columns
                     THEN Pivot(HeatmapData(df_filtrado))
                     ELSE <<>>]
    /\ pc' = "seccion4"
    /\ UNCHANGED <<source, cache, fetches, previa, df, sesion, sel, opciones, df_filtrado, aviso>>

(***************************************************************************)
(* Section 4.3: Lorenz curve and concentration (lines 884-925).            *)
(***************************************************************************)
\* lines 886-893: the points (municipios_pct, produccion_acum_pct)
LorenzData(conc) ==
    LET produccion_acum == CumSum(conc)
        n == Len(conc)
        municipios_pct == Linspace100(n)
    IN [i \in 1..n |-> [x |-> municipios_pct[i],
                        y |-> Pct(produccion_acum[i], produccion_acum[n])]]

\* the number of groups rounded up instead of truncated
MutTop20(n) == (n + 4) \div 5

\* line 916: int(len(...) * 0.2)
Top20(n) == n \div 5

Seccion4 ==
    /\ pc = "seccion4"
    /\ LET produccion_municipios_conc ==
               SortValues(GroupSum(df_filtrado, "municipio", "produccion"), "valor", TRUE)
           top_20_pct_municipios == Top20(Len(produccion_municipios_conc))
           produccion_top_20 ==
               SumCol(TailN(produccion_municipios_conc, top_20_pct_municipios), "valor")
           produccion_total_conc == SumCol(produccion_municipios_conc, "valor")
       IN res' = [res EXCEPT
                    !.hechas = @ \cup {"seccion4"},
                    !.produccion_municipios_conc = produccion_municipios_conc,
                    !.lorenz_data = LorenzData(produccion_municipios_conc),
                    !.top_20_pct_municipios = top_20_pct_municipios,
                    !.concentracion_20 =
                        ConcentracionGuardada(produccion_top_20, produccion_total_conc)]
    /\ pc' = "tabla"
    /\ UNCHANGED <<source, cache, fetches, previa, df, sesion, sel, opciones, df_filtrado, aviso>>

(***************************************************************************)
(* Data table and CSV export (lines 938-952).                              *)
(***************************************************************************)
ColumnasTabla == {"cultivo", "departamento", "municipio", "año", "area_sembrada",
                  "area_cosechada", "produccion", "rendimiento"}

\* line 940 raises KeyError when one of the listed columns is absent
Tabla ==
    /\ pc = "tabla"
    /\ IF ColumnasTabla \subseteq df.columns
       THEN /\ res' = [res EXCEPT !.hechas = @ \cup {"tabla"}, !.csv = df_filtrado]
            /\ pc' = "fin"
       ELSE /\ res' = res
            /\ pc' = "excepcion"
    /\ UNCHANGED <<source, cache, fetches, previa, df, sesion, sel, opciones, df_filtrado, aviso>>

Next ==
    \/ LoadData
    \/ Sidebar
    \/ Check1
    \/ Filtros
    \/ Aplicar
    \/ Check2
    \/ Metricas
    \/ Seccion1
    \/ Seccion2
    \/ Seccion3
    \/ Seccion4
    \/ Tabla
    \/ CambiarMultiselect
    \/ CambiarAnio
    \/ CambiarDepartamento
    \/ CambiarMunicipio
    \/ Rerun

Spec == Init /\ [][Next]_vars

SpecAgg == InitAgg /\ [][Next]_vars

SpecEfic == InitEfic /\ [][Next]_vars

SpecLoad == InitLoad /\ [][Next]_vars

SpecParse == InitParse /\ [][Next]_vars

SpecCrop == InitCrop /\ [][Next]_vars

SpecPivot == InitPivot /\ [][Next]_vars

SpecTop == InitTop /\ [][Next]_vars

(***************************************************************************)
(* Properties.                                                             *)
(***************************************************************************)
\* the script has passed the department multiselect, and no further filter
TrasMultiselect ==
    pc \in {"check1", "filtros", "aplicar"} \/ (pc = "stop" /\ aviso = "error")

\* the script has applied the year / department / municipality filters
TrasFiltros ==
    \/ pc \in {"check2", "metricas", "seccion1", "seccion2", "seccion3", "seccion4",
               "tabla", "fin"}
    \/ (pc = "stop" /\ aviso = "warning")

EnMultiselect(r) == sel.multiselect = {} \/ r["departamento"] \in sel.multiselect

CumpleFiltros(r) ==
    /\ EnMultiselect(r)
    /\ sel.anio = Todos \/ r["año"] = sel.anio
    /\ sel.dep = Todos \/ r["departamento"] = sel.dep
    /\ sel.mun = Todos \/ r["municipio"] = sel.mun

\* C1: the filtered table is exactly the rows of the normalized table that
\* satisfy all active filters at once; 'Todos' and an empty multiselect
\* restrict nothing.
C1_FiltroConjuntivo ==
    /\ TrasMultiselect => df_filtrado = SelectSeq(df.rows, EnMultiselect)
    /\ TrasFiltros => df_filtrado = SelectSeq(df.rows, CumpleFiltros)

C1_Witness ==
    /\ TrasFiltros
    /\ sel.multiselect = {}
    /\ sel.anio # Todos
    /\ df_filtrado # <<>>
    /\ Len(df_filtrado) < Len(df.rows)

\* C2: an empty filtered table at either checkpoint ends the cycle with a
\* notice; nothing is computed in that cycle, and every metric or summary
\* is computed on a non-empty table.
C2_VacioDetiene ==
    /\ pc \in {"filtros", "aplicar", "metricas", "seccion1", "seccion2", "seccion3",
               "seccion4", "tabla", "fin"} => df_filtrado # <<>>
    /\ res.hechas # {} => df_filtrado # <<>>
    /\ pc = "stop" => /\ df_filtrado = <<>>
                      /\ aviso \in {"error", "warning"}
                      /\ res = ResInicial

C2_Witness ==
    /\ pc = "stop"
    /\ aviso = "warning"
    /\ sel.anio # Todos
    /\ sel.dep # Todos

\* the script has evaluated the three selectboxes
TrasSelectores == pc = "aplicar" \/ TrasFiltros

\* C3: the municipality options are the municipalities of the rows of the
\* selected department (of every row when it is 'Todos'), and a stored
\* municipality that is not among them gives way to 'Todos'.
C3_MunicipioDependiente ==
    TrasSelectores =>
        /\ opciones.mun =
               {df.rows[i]["municipio"] :
                   i \in {j \in 1..Len(df.rows) :
                             /\ EnMultiselect(df.rows[j])
                             /\ sel.dep = Todos \/ df.rows[j]["departamento"] = sel.dep}}
        /\ sel.mun \in opciones.mun \cup {Todos}
        /\ previa.value \notin opciones.mun => sel.mun = Todos

C3_Witness ==
    /\ pc = "aplicar"
    /\ previa.value # Todos
    /\ previa.value \notin opciones.mun
    /\ sel.dep # Todos
    /\ sel.mun = Todos

\* C4: the body of load_data runs at most once, the memoized table never
\* changes once stored, and every later cycle starts from that same table.
C4_CargaUnica ==
    [][/\ fetches' <= 1
       /\ cache.lleno => cache' = cache
       /\ (pc = "load_data" /\ cache.lleno) => df' = cache]_vars

C4_Witness ==
    /\ pc = "fin"
    /\ fetches = 1
    /\ sel.dep # Todos
    /\ df = cache

\* the sum of the field campo over a set of summary rows
SumaGrupos(S, campo) == SumCol(SetToSeq(S), campo)

\* every section of the cycle has been computed
Completo == pc \in {"tabla", "fin"}

\* C5: for every grouping key, the group sums of production add up to the
\* ungrouped sum of production over the same filtered table, rows with a
\* missing key included.
C5_Conservacion ==
    Completo =>
        LET total == SumCol(df_filtrado, "produccion")
        IN /\ HayAnios(df_filtrado, df.columns) =>
                  SumaGrupos(res.produccion_anio, "valor") = total
           /\ SumCol(res.produccion_dep, "valor") = total
           /\ SumCol(res.produccion_municipios, "produccion") = total
           /\ SumCol(res.produccion_municipios_conc, "valor") = total
           /\ SumCol(res.sistemas, "valor") = total
           /\ SumCol(res.produccion_periodo, "valor") = total

\* C6: every concentration ratio is top / total * 100, and 0 when the total
\* is zero.
C6_ConcentracionCero ==
    Completo =>
        LET dep == res.produccion_dep_desc
            mun == res.produccion_municipios
            conc == res.produccion_municipios_conc
            Ratio(top, total) == IF total = 0 THEN Cero ELSE Pct(top, total)
        IN /\ res.concentracion_top5 =
                  Ratio(SumCol(HeadN(dep, TopDepartamentos), "valor"), SumCol(dep, "valor"))
           /\ res.concentracion =
                  Ratio(SumCol(HeadN(mun, TopMunicipios), "produccion"),
                        SumCol(mun, "produccion"))
           /\ res.concentracion_20 =
                  Ratio(SumCol(TailN(conc, Len(conc) \div 5), "valor"), SumCol(conc, "valor"))

\* C7: the efficiency table holds harvested / sown * 100 and sown - harvested
\* for exactly the departments whose summed sown area is positive.
C7_EficienciaSinCero ==
    "seccion2" \in res.hechas =>
        LET tabla == res.eficiencia_dept
            sembrada(d) == SumCol(Grupo(df_filtrado, <<"departamento">>, <<d>>),
                                  "area_sembrada")
        IN /\ \A i \in 1..Len(tabla) :
                  /\ tabla[i].area_sembrada > 0
                  /\ tabla[i].perdida = tabla[i].area_sembrada - tabla[i].area_cosechada
                  /\ tabla[i].eficiencia =
                         Round2(Pct(tabla[i].area_cosechada, tabla[i].area_sembrada))
           /\ {tabla[i].departamento : i \in 1..Len(tabla)} =
                  {d \in Unique(df_filtrado, "departamento") : sembrada(d) > 0}

\* C8: with a positive total the Lorenz series lies on or below the
\* diagonal at every point, starts at (0,0) and ends at (100,100).
C8_LorenzBajoDiagonal ==
    ("seccion4" \in res.hechas /\ SumCol(df_filtrado, "produccion") > 0) =>
        LET L == res.lorenz_data
        IN /\ \A i \in 1..Len(L) : Leq(L[i].y, L[i].x)
           /\ L[1] = [x |-> Cero, y |-> Cero]
           /\ L[Len(L)] = [x |-> Cien, y |-> Cien]

\* C9: with a positive total, the share of the n largest group sums does not
\* decrease with n, no n groups have a larger share, and the share is 100
\* once n reaches the number of groups; so are the top-5 department and the
\* top-10 municipality figures when there are at most 5 / 10 groups.
C9_TopNMonotona ==
    ("seccion1" \in res.hechas /\ SumCol(df_filtrado, "produccion") > 0) =>
        LET dep == res.produccion_dep_desc
            mun == res.produccion_municipios
            Share(s, campo, n) ==
                ConcentracionGuardada(SumCol(HeadN(s, n), campo), SumCol(s, campo))
            Ley(s, campo) ==
                /\ \A n \in 0..Len(s) : Leq(Share(s, campo, n), Share(s, campo, n + 1))
                /\ \A T \in SUBSET {s[i] : i \in 1..Len(s)} :
                      Leq(Pct(SumaGrupos(T, campo), SumCol(s, campo)),
                          Share(s, campo, Cardinality(T)))
                /\ \A n \in Len(s)..Len(s) + 1 : Share(s, campo, n) = Cien
        IN /\ Ley(dep, "valor")
           /\ Ley(mun, "produccion")
           /\ \A n \in 0..Len(dep) + 1 :
                  ConcentracionTop(dep, n) = Share(dep, "valor", n)
           /\ Len(dep) <= TopDepartamentos => res.concentracion_top5 = Cien
           /\ Len(mun) <= TopMunicipios => res.concentracion = Cien

C9_Witness ==
    /\ "seccion1" \in res.hechas
    /\ Len(res.produccion_dep_desc) = 2
    /\ Len(res.produccion_municipios) = 2
    /\ ConcentracionTop(res.produccion_dep_desc, 1) # Cien
    /\ res.produccion_municipios[1].produccion > res.produccion_municipios[2].produccion
    /\ res.concentracion_top5 = Cien
    /\ res.concentracion = Cien

\* the cleaned form of every spelling a header of the file can have
Limpios == [rh \in UNION {{Raw[e][h] : h \in ExpectedHeaders} : e \in Estilos} |->
               CleanHeader(rh)]

\* the expected headers that the file lacks once its headers are cleaned
HeadersAusentes == ExpectedHeaders \ {Limpios[h] : h \in source.columns}

Denota == [f \in FormasTexto \ {"x"} |-> IF f = "1" THEN 1 ELSE 2]

\* the rows of the file that load_data keeps, in SpecParse
FilasArroz == SelectSeq(source.rows, LAMBDA r : r["CULTIVO"] = "ARROZ")

C11_ParseoNumerico ==
    fetches > 0 =>
        IF \E i \in 1..Len(FilasArroz), h \in source.objeto : FilasArroz[i][h] = "x"
        THEN ~cache.lleno /\ df = Vacio /\ pc \in {"excepcion", "load_data"}
        ELSE /\ cache.lleno
             /\ Len(cache.rows) = Len(FilasArroz)
             /\ \A i \in 1..Len(FilasArroz), h \in NumericHeaders :
                    cache.rows[i][column_mapping[h]] =
                        IF h \in source.objeto THEN Denota[FilasArroz[i][h]]
                        ELSE FilasArroz[i][h]

C11_Witness ==
    /\ cache.lleno
    /\ pc = "fin"
    /\ source.objeto = {"Producción (t)"}
    /\ \E i \in 1..Len(FilasArroz) : FilasArroz[i]["Producción (t)"] = "2,0"
    /\ \E i \in 1..Len(source.rows) : source.rows[i]["CULTIVO"] = "MAIZ"

(***************************************************************************)
(* C12: the table load_data returns holds exactly the rows of the file     *)
(* whose crop group is CEREALES and whose crop is ARROZ, whatever the      *)
(* letter case and the surrounding whitespace of the stored values, in the *)
(* order of the file and with their values; every other row is left out.   *)
(***************************************************************************)
\* the stored spellings that denote the group and the crop
EscriturasCereales == {"CEREALES", " Cereales"}
EscriturasArroz == {"ARROZ", " arroz "}

\* the rows of the file that are rice, under the header spelling "saltos"
FilasDeArroz ==
    SelectSeq(source.rows,
              LAMBDA r : /\ r[Raw["saltos"]["GRUPO  DE CULTIVO"]] \in EscriturasCereales
                         /\ r[Raw["saltos"]["CULTIVO"]] \in EscriturasArroz)

C12_SoloArroz ==
    fetches > 0 =>
        /\ cache.lleno
        /\ Len(cache.rows) = Len(FilasDeArroz)
        /\ \A i \in 1..Len(FilasDeArroz), h \in ExpectedHeaders :
               cache.rows[i][column_mapping[h]] = FilasDeArroz[i][Raw["saltos"][h]]

C12_Witness ==
    /\ cache.lleno
    /\ Len(source.rows) = 2
    /\ Len(cache.rows) = 1
    /\ cache.rows[1]["grupo_cultivo"] = " Cereales"
    /\ cache.rows[1]["cultivo"] = " arroz "
    /\ \E i \in 1..2 : /\ source.rows[i][Raw["saltos"]["GRUPO  DE CULTIVO"]] = "FRUTALES"
                        /\ source.rows[i][Raw["saltos"]["CULTIVO"]] = "ARROZ"

(***************************************************************************)
(* C13, as stated: every header name load_data uses for lookup has no line *)
(* break, no leading or trailing whitespace and no run of two or more      *)
(* whitespace characters.                                                  *)
(***************************************************************************)
SinSaltos(c) == \A i \in 1..Len(c) : Char(c, i) # "\n"

SinBordes(c) == Len(c) = 0 \/ (Char(c, 1) \notin Whitespace /\ Char(c, Len(c)) \notin Whitespace)

SinRachas(c) ==
    \A i \in 1..Len(c) - 1 : ~(Char(c, i) \in Whitespace /\ Char(c, i + 1) \in Whitespace)

\* the spellings whose cleaned form keeps a line break or a blank border
MalLimpios == {rh \in DOMAIN Limpios : ~(SinSaltos(Limpios[rh]) /\ SinBordes(Limpios[rh]))}

\* the spellings whose cleaned form holds a run of whitespace
ConRachas == {rh \in DOMAIN Limpios : ~SinRachas(Limpios[rh])}

C13_EncabezadosColapsados ==
    fetches > 0 => source.columns \cap (MalLimpios \cup ConRachas) = {}

(***************************************************************************)
(* C13, amended: every header name load_data uses for lookup has no line   *)
(* break and no leading or trailing whitespace; a line break becomes one   *)
(* blank and runs of blanks are kept, which gives the names the lookups    *)
(* and the column mapping are written with (doubled blanks included).      *)
(***************************************************************************)
C13_EncabezadosLimpios ==
    fetches > 0 =>
        /\ source.columns \cap MalLimpios = {}
        /\ {Limpios[rh] : rh \in source.columns} \subseteq ExpectedHeaders
        /\ cache.lleno => cache.columns \subseteq CanonicalFields

C13_Witness ==
    /\ cache.lleno
    /\ Raw["saltos"]["GRUPO  DE CULTIVO"] \in source.columns
    /\ Raw["saltos"]["GRUPO  DE CULTIVO"] \in ConRachas
    /\ ~SinSaltos(Raw["saltos"]["GRUPO  DE CULTIVO"])
    /\ "grupo_cultivo" \in cache.columns

(***************************************************************************)
(* C14: the year x period cross-tabulation has the periods as rows and the *)
(* years as columns; a (period, year) cell holds the sum of production of  *)
(* the rows of the filtered table with that pair when there is such a row  *)
(* and is null, not 0, when there is none.                                 *)
(***************************************************************************)
\* the rows of the filtered table with year a and period p
FilasDelPar(a, p) == SelectSeq(df_filtrado, LAMBDA r : r["año"] = a /\ r["periodo"] = p)

\* the rows of the filtered table that have both a year and a period
FilasConPar == SelectSeq(df_filtrado, LAMBDA r : r["año"] # NaN /\ r["periodo"] # NaN)

C14_TablaCruzada ==
    ("seccion3" \in res.hechas /\ FilasConPar # <<>>) =>
        /\ DOMAIN res.heatmap_pivot = Unique(FilasConPar, "periodo")
        /\ \A p \in DOMAIN res.heatmap_pivot :
              /\ DOMAIN res.heatmap_pivot[p] = Unique(FilasConPar, "año")
              /\ \A a \in DOMAIN res.heatmap_pivot[p] :
                    IF FilasDelPar(a, p) # <<>>
                    THEN res.heatmap_pivot[p][a] =
                             Celda(SumCol(FilasDelPar(a, p), "produccion"))
                    ELSE res.heatmap_pivot[p][a].nulo

C14_Witness ==
    /\ "seccion3" \in res.hechas
    /\ \E p \in DOMAIN res.heatmap_pivot : \E a, b \in DOMAIN res.heatmap_pivot[p] :
          /\ res.heatmap_pivot[p][a].nulo
          /\ res.heatmap_pivot[p][b] = Celda(2)

(***************************************************************************)
(* C15: the Lorenz series has one point per municipality group; the y of   *)
(* point i is the sum of the i smallest group sums of production as a      *)
(* percentage of the total, its x is the i-th of N evenly spaced values    *)
(* from 0 to 100; with a positive total y does not decrease and ends at    *)
(* 100.                                                                    *)
(***************************************************************************)
\* the municipality groups of the filtered table with their production
GruposMunicipio ==
    {[clave |-> m,
      valor |-> SumCol(SelectSeq(df_filtrado, LAMBDA r : r["municipio"] = m), "produccion")] :
        m \in Unique(df_filtrado, "municipio") \ {NaN}}

\* the smallest total that i of the groups can have
MenorSuma(i) ==
    LET sumas == {SumaGrupos(T, "valor") :
                     T \in {U \in SUBSET GruposMunicipio : Cardinality(U) = i}}
    IN CHOOSE v \in sumas : \A w \in sumas : v <= w

C15_SerieLorenz ==
    "seccion4" \in res.hechas =>
        LET L == res.lorenz_data
            n == Cardinality(GruposMunicipio)
            total == SumaGrupos(GruposMunicipio, "valor")
        IN /\ Len(L) = n
           /\ \A i \in 1..n :
                 /\ L[i].y = Pct(MenorSuma(i), total)
                 /\ n > 1 => L[i].x = Frac(100 * (i - 1), n - 1)
                 /\ n = 1 => L[i].x = Cero
           /\ total > 0 =>
                 /\ \A i \in 1..n - 1 : Leq(L[i].y, L[i + 1].y)
                 /\ L[n].y = Cien

C15_Witness ==
    /\ "seccion4" \in res.hechas
    /\ Len(res.lorenz_data) = 2
    /\ res.lorenz_data[1] = [x |-> Cero, y |-> Frac(100, 3)]
    /\ res.lorenz_data[2] = [x |-> Cien, y |-> Cien]

(***************************************************************************)
(* C16: from the second empty check to the end of the cycle no step        *)
(* changes the filtered table (nor the loaded table or the memo): every    *)
(* aggregation writes its summary only, and the table that is exported is  *)
(* the table the first metric was computed from.                           *)
(***************************************************************************)
\* the positions of the script after the second empty check
TrasCheck2 == {"metricas", "seccion1", "seccion2", "seccion3", "seccion4", "tabla"}

C16_TablaFiltradaIntacta ==
    [][/\ pc \in TrasCheck2 =>
            /\ df_filtrado' = df_filtrado
            /\ df' = df
            /\ cache' = cache
       /\ (pc = "tabla" /\ pc' = "fin") =>
            /\ res'.csv = df_filtrado
            /\ res'.total_produccion = Frac(SumCol(res'.csv, "produccion"), 1000000)
            /\ res'.produccion_municipios = ProduccionMunicipios(res'.csv)
            /\ res'.eficiencia_dept = EficienciaDept(res'.csv)
            /\ \A i \in 1..Len(res'.csv) : DOMAIN res'.csv[i] = df.columns]_vars

C16_Witness ==
    /\ pc = "fin"
    /\ "tabla" \in res.hechas
    /\ res.csv = df_filtrado
    /\ Len(df_filtrado) = 1
    /\ Len(df.rows) = 2
    /\ Len(res.produccion_municipios) = 1
    /\ Len(res.eficiencia_dept) = 1

(***************************************************************************)
(* C17: the filtered table of a cycle is one fixed function of the         *)
(* memoized table and of the selections in effect in that cycle, and of    *)
(* nothing else; so two cycles with the same selections have the same      *)
(* filtered table whatever the widgets held before.                        *)
(***************************************************************************)
\* the rows of a table that the selections s admit
TablaDe(rows, s) ==
    SelectSeq(rows,
              LAMBDA r : /\ s.multiselect = {} \/ r["departamento"] \in s.multiselect
                         /\ s.anio = Todos \/ r["año"] = s.anio
                         /\ s.dep = Todos \/ r["departamento"] = s.dep
                         /\ s.mun = Todos \/ r["municipio"] = s.mun)

C17_CicloSinEstado ==
    TrasFiltros => (cache.lleno /\ df_filtrado = TablaDe(cache.rows, sel))

C17_Witness ==
    /\ pc = "fin"
    /\ fetches = 1
    /\ previa.value # Todos
    /\ sel.mun = Todos
    /\ sel.dep # Todos
    /\ df_filtrado = TablaDe(cache.rows, sel)
    /\ Len(df_filtrado) < Len(cache.rows)

(***************************************************************************)
(* C18: the multiselect offers the departments of the normalized table and *)
(* the selection is among them; the first empty check halts the cycle only *)
(* when the normalized table has no rows, so with a non-empty table the    *)
(* cycle reaches the selectboxes whatever the multiselect holds and only   *)
(* the second check can halt it.                                           *)
(***************************************************************************)
\* the script has evaluated the multiselect in this cycle
TrasSidebar == TrasMultiselect \/ TrasFiltros

C18_PrimerCorteSoloSinDatos ==
    /\ TrasSidebar =>
          /\ opciones.multiselect = Unique(df.rows, "departamento")
          /\ sel.multiselect \subseteq opciones.multiselect
    /\ (pc = "stop" /\ aviso = "error") => (cache.lleno /\ cache.rows = <<>>)
    /\ (pc = "stop" /\ cache.rows # <<>>) =>
          (aviso = "warning" /\ {"dep", "mun"} \subseteq opciones.rendered)
    /\ (pc = "filtros" /\ df.rows # <<>>) => df_filtrado # <<>>

C18_Witness ==
    /\ pc = "stop"
    /\ aviso = "warning"
    /\ cache.rows # <<>>
    /\ sel.multiselect = {}
    /\ opciones.multiselect # {}

(***************************************************************************)
(* C19: the top 20% concentration takes floor(0.2 x M) of the M            *)
(* municipality groups: none when M < 5, and the figure is then 0% with a  *)
(* positive total; with M >= 5 it is the share of the floor(0.2 x M)       *)
(* largest group sums in the total.                                        *)
(***************************************************************************)
\* the largest total that k of the municipality groups can have
MayorSuma(k) ==
    LET sumas == {SumaGrupos(T, "valor") :
                     T \in {U \in SUBSET GruposMunicipio : Cardinality(U) = k}}
    IN CHOOSE v \in sumas : \A w \in sumas : v >= w

C19_Top20Truncado ==
    "seccion4" \in res.hechas =>
        LET M == Cardinality(GruposMunicipio)
            total == SumaGrupos(GruposMunicipio, "valor")
            k == res.top_20_pct_municipios
        IN /\ 5 * k <= M /\ M < 5 * (k + 1)
           /\ M < 5 => (k = 0 /\ res.concentracion_20 = Cero)
           /\ (M >= 5 /\ total > 0) => res.concentracion_20 = Pct(MayorSuma(k), total)

C19_Witness ==
    /\ "seccion4" \in res.hechas
    /\ Cardinality(GruposMunicipio) = 5
    /\ SumaGrupos(GruposMunicipio, "valor") = 6
    /\ res.top_20_pct_municipios = 1
    /\ res.concentracion_20 = Frac(100, 3)

(***************************************************************************)
(* C20: in one cycle the municipality count of the main metrics equals the *)
(* number of groups of the Lorenz section; the total of section 1.3, the   *)
(* number of (department, municipality) pairs, is at least that count and  *)
(* is larger exactly when one municipality name occurs under two or more   *)
(* departments in the filtered table.                                      *)
(***************************************************************************)
\* a municipality name of the filtered table that two departments share
NombreRepetido ==
    \E i, j \in 1..Len(df_filtrado) :
        /\ df_filtrado[i]["municipio"] = df_filtrado[j]["municipio"]
        /\ df_filtrado[i]["departamento"] # df_filtrado[j]["departamento"]

C20_ConteosMunicipios ==
    Completo =>
        /\ res.num_municipios = Cardinality(Unique(df_filtrado, "municipio"))
        /\ res.num_municipios = Len(res.produccion_municipios_conc)
        /\ res.total_municipios =
               Cardinality({<<df_filtrado[i]["departamento"], df_filtrado[i]["municipio"]>> :
                               i \in 1..Len(df_filtrado)})
        /\ res.total_municipios >= res.num_municipios
        /\ (res.total_municipios > res.num_municipios) <=> NombreRepetido

C20_Witness ==
    /\ Completo
    /\ NombreRepetido
    /\ res.num_municipios = 1
    /\ Len(res.produccion_municipios_conc) = 1
    /\ res.total_municipios = 2

====
